---------------------------- MODULE Spec2Model ----------------------------
(***************************************************************************)
(* Model of server/main.py: the lifespan of the server (startup with the   *)
(* connect-with-retry loop, shutdown), the /ws session handler with its    *)
(* response normalisation, and the two audio callbacks.                    *)
(*                                                                         *)
(* Python values are tagged records: [t |-> "str", v |-> "42"],            *)
(* [t |-> "dict", v |-> f] with f a function from the keys present to      *)
(* values, [t |-> "list", v |-> <<..>>], [t |-> "int", v |-> 3] and        *)
(* [t |-> "none"].  An outbound frame is the Python dict handed to         *)
(* json.dumps; every value used here is JSON-serialisable and the JSON     *)
(* encoding of such values is injective, so a frame on the wire is         *)
(* identified with the dict it encodes.                                    *)
(***************************************************************************)
EXTENDS Integers, Sequences, FiniteSets, TLC

(***************************************************************************)
(* Bounds of the model.                                                    *)
(***************************************************************************)
\* longest video_urls list an agent result carries
MaxUrls == 2
\* sessions (connections to /ws) that may be opened
MaxSessions == 2
\* inbound frames one session receives
MaxFrames == 2
\* times the lifespan is entered (startup, serving, shutdown)
MaxRuns == 2
\* recognised texts the Transcriber produces
MaxSpeech == 1

(***************************************************************************)
(* Python values.                                                          *)
(***************************************************************************)
PyNone == [t |-> "none"]
PyStr(s) == [t |-> "str", v |-> s]
PyInt(n) == [t |-> "int", v |-> n]
PyList(l) == [t |-> "list", v |-> l]
PyDict(d) == [t |-> "dict", v |-> d]
EmptyDict == <<>>

\* isinstance(x, dict)
IsDict(x) == x.t = "dict"

\* k in d, for a dict d
Has(x, k) == k \in DOMAIN x.v

\* d.get(k, default), for a dict d; raises AttributeError on anything else,
\* which the callers below test for with IsDict before they use it
Get(x, k, default) == IF k \in DOMAIN x.v THEN x.v[k] ELSE default

\* Python truth value: bool(x)
Truthy(x) ==
    CASE x.t = "none" -> FALSE
      [] x.t = "str" -> x.v # ""
      [] x.t = "int" -> x.v # 0
      [] x.t = "list" -> Len(x.v) > 0
      [] x.t = "dict" -> DOMAIN x.v # {}

\* len(x) of a list
PyLen(x) == Len(x.v)

\* the name of type(x), as it appears in an AttributeError text
TypeName(x) ==
    CASE x.t = "none" -> "NoneType"
      [] x.t = "str" -> "str"
      [] x.t = "int" -> "int"
      [] x.t = "list" -> "list"
      [] x.t = "dict" -> "dict"

\* the order in which the keys of a dict are rendered by str()
KeyOrder == <<"video_urls", "intent", "result", "message", "query">>

RECURSIVE ReprList(_, _)
\* the items of a list of strings from index i on, as repr() renders them
ReprList(l, i) ==
    IF i > Len(l) THEN ""
    ELSE "'" \o l[i] \o "'" \o (IF i < Len(l) THEN ", " ELSE "") \o ReprList(l, i + 1)

RECURSIVE Repr(_)
RECURSIVE ReprItems(_, _, _)
\* the items of dict d for the keys KeyOrder[i..], first says whether an item
\* was already rendered
ReprItems(d, i, first) ==
    IF i > Len(KeyOrder) THEN ""
    ELSE IF KeyOrder[i] \in DOMAIN d
         THEN (IF first THEN "" ELSE ", ") \o "'" \o KeyOrder[i] \o "': "
              \o Repr(d[KeyOrder[i]]) \o ReprItems(d, i + 1, FALSE)
         ELSE ReprItems(d, i + 1, first)

\* repr(x)
Repr(x) ==
    CASE x.t = "none" -> "None"
      [] x.t = "str" -> "'" \o x.v \o "'"
      [] x.t = "int" -> ToString(x.v)
      [] x.t = "list" -> "[" \o ReprList(x.v, 1) \o "]"
      [] x.t = "dict" -> "{" \o ReprItems(x.v, 1, TRUE) \o "}"

\* str(x): a string is its own string form, anything else is rendered by repr
Str(x) == IF x.t = "str" THEN x.v ELSE Repr(x)

(***************************************************************************)
(* Exceptions.  cls is the class, text is str(e).                          *)
(***************************************************************************)
Exc(cls, text) == [cls |-> cls, text |-> text]
NoExc == [cls |-> "none", text |-> ""]

\* isinstance(e, ValueError): json.JSONDecodeError is a subclass of ValueError
IsValueError(e) == e.cls \in {"ValueError", "JSONDecodeError"}

\* isinstance(e, Exception): asyncio.CancelledError derives from BaseException
IsException(e) == e.cls \notin {"none", "CancelledError"}

\* x.get(...) on a value that is no dict
NoGet(x) == Exc("AttributeError", "'" \o TypeName(x) \o "' object has no attribute 'get'")

(***************************************************************************)
(* Response normalisation (websocket_endpoint, lines 190-232).             *)
(***************************************************************************)
\* lines 190-195: the side-payload, None when there is none
ExtractVideoUrls(response) ==
    IF IsDict(response)
    THEN IF Has(response, "video_urls")
         THEN response.v["video_urls"]
         ELSE IF IsDict(Get(response, "result", PyNone))
                 /\ Has(response.v["result"], "video_urls")
              THEN response.v["result"].v["video_urls"]
              ELSE PyNone
    ELSE PyNone

\* lines 197-212: the message text
MessageContent(response) ==
    IF IsDict(response)
    THEN IF Has(response, "intent") /\ response.v["intent"] = PyStr("youtube_search")
         THEN IF IsDict(Get(response, "result", PyNone))
              THEN Get(response.v["result"], "message", PyStr(""))
              ELSE PyStr("")
         ELSE IF IsDict(Get(response, "result", PyNone))
              THEN IF Has(response.v["result"], "message")
                   THEN response.v["result"].v["message"]
                   ELSE IF Has(response.v["result"], "result")
                        THEN response.v["result"].v["result"]
                        ELSE PyStr(Str(response.v["result"]))
              ELSE PyStr(Str(Get(response, "result", response)))
    ELSE PyStr(Str(response))

\* WithIntent inside the branch of line 221: the intent is recorded only
\* together with a side-payload
WithIntentOnlyWithPayload(response, metadata) ==
    IF IsDict(response) /\ Has(response, "intent") /\ DOMAIN metadata # {}
    THEN metadata @@ ("intent" :> response.v["intent"])
    ELSE metadata

\* lines 228-230: metadata.intent
WithIntent(response, metadata) ==
    IF IsDict(response) /\ Has(response, "intent")
    THEN metadata @@ ("intent" :> response.v["intent"])
    ELSE metadata

\* lines 190-232: the frame built for an agent result, or the exception that
\* building it raises (line 225 calls .get on response["result"])
BuildFrame(response) ==
    LET video_urls == ExtractVideoUrls(response)
        message_content == MessageContent(response)
        base == ("type" :> PyStr("response")) @@ ("data" :> message_content)
    IN  IF Truthy(video_urls)
        THEN LET result == Get(response, "result", PyDict(EmptyDict))
             IN  IF ~IsDict(result)
                 THEN [exc |-> NoGet(result), frame |-> PyNone]
                 ELSE [exc |-> NoExc,
                       frame |-> PyDict(base
                           @@ ("video_urls" :> video_urls)
                           @@ ("metadata" :> PyDict(WithIntent(response,
                                  ("content_type" :> PyStr("youtube_videos"))
                               @@ ("query" :> Get(result, "query", PyStr("")))
                               @@ ("count" :> PyInt(PyLen(video_urls)))))))]
        ELSE [exc |-> NoExc,
              frame |-> PyDict(base
                  @@ ("metadata" :> PyDict(WithIntent(response, EmptyDict))))]

(***************************************************************************)
(* The agent results the model draws from: plain values, and mappings over *)
(* the keys the normalisation reads.                                       *)
(***************************************************************************)
UrlNames == <<"a", "b", "c", "d">>

\* the video_urls lists of length 0..MaxUrls
UrlLists == {PyList([i \in 1..n |-> UrlNames[i]]) : n \in 0..MaxUrls}

\* all dicts whose keys are a subset of the domain of choices, key k taking a
\* value of choices[k]
DictsOver(choices) ==
    UNION {[K -> UNION {choices[k] : k \in K}] : K \in SUBSET DOMAIN choices}

WellKeyed(d, choices) == \A k \in DOMAIN d : d[k] \in choices[k]

\* the values of response["result"]
ResultValues ==
    {PyStr("42"), PyNone}
    \cup {PyDict(d) : d \in {e \in DictsOver([message |-> {PyStr("Here are videos")},
                                             result |-> {PyStr("inner")},
                                             video_urls |-> UrlLists,
                                             query |-> {PyStr("cats")}]) :
                               WellKeyed(e, [message |-> {PyStr("Here are videos")},
                                             result |-> {PyStr("inner")},
                                             video_urls |-> UrlLists,
                                             query |-> {PyStr("cats")}])}}

TopChoices ==
    [video_urls |-> UrlLists,
     intent |-> {PyStr("youtube_search"), PyStr("chat")},
     result |-> ResultValues]

\* what process_command may return
AgentResults ==
    {PyStr("plain"), PyNone}
    \cup {PyDict(d) : d \in {e \in DictsOver(TopChoices) : WellKeyed(e, TopChoices)}}

(***************************************************************************)
(* Inbound frames and what the agent does with a command.                  *)
(***************************************************************************)
\* the text frames a peer sends
Messages ==
    {"{\"command\": \"play\"}", "{\"command\": \"\"}", "{\"command\": null}",
     "{}", "[\"x\"]", "null", "not json"}

\* json.loads(message): the value, or the JSONDecodeError it raises
JsonLoads(message) ==
    CASE message = "{\"command\": \"play\"}" ->
            [exc |-> NoExc, val |-> PyDict([command |-> PyStr("play")])]
      [] message = "{\"command\": \"\"}" ->
            [exc |-> NoExc, val |-> PyDict([command |-> PyStr("")])]
      [] message = "{\"command\": null}" ->
            [exc |-> NoExc, val |-> PyDict([command |-> PyNone])]
      [] message = "{}" -> [exc |-> NoExc, val |-> PyDict(EmptyDict)]
      [] message = "[\"x\"]" -> [exc |-> NoExc, val |-> PyList(<<"x">>)]
      [] message = "null" -> [exc |-> NoExc, val |-> PyNone]
      [] OTHER ->
            [exc |-> Exc("JSONDecodeError", "Expecting value: line 1 column 1 (char 0)"),
             val |-> PyNone]

\* ParseCommand without the check of line 184: an empty or missing command
\* is handed to the agent
ParseCommandUnchecked(message) ==
    LET loaded == JsonLoads(message)
        data == loaded.val
    IN  IF loaded.exc # NoExc
        THEN [exc |-> loaded.exc, command |-> PyNone]
        ELSE IF ~IsDict(data)
             THEN [exc |-> NoGet(data), command |-> PyNone]
             ELSE [exc |-> NoExc, command |-> Get(data, "command", PyNone)]

\* lines 181-185: the command of an inbound frame, or the exception raised
\* before the agent is called
ParseCommand(message) ==
    LET loaded == JsonLoads(message)
        data == loaded.val
    IN  IF loaded.exc # NoExc
        THEN [exc |-> loaded.exc, command |-> PyNone]
        ELSE IF ~IsDict(data)
             THEN [exc |-> NoGet(data), command |-> PyNone]
             ELSE IF ~Truthy(Get(data, "command", PyNone))
                  THEN [exc |-> Exc("ValueError", "Command is required"),
                        command |-> PyNone]
                  ELSE [exc |-> NoExc, command |-> Get(data, "command", PyNone)]

\* the results process_command returns to a session
SessionResults ==
    {PyStr("plain"),
     PyDict([result |-> PyStr("42")]),
     PyDict([intent |-> PyStr("youtube_search"),
             result |-> PyDict([message |-> PyStr("Here are videos"),
                                video_urls |-> PyList(<<"a", "b">>),
                                query |-> PyStr("cats")])]),
     PyDict([video_urls |-> PyList(<<"a">>), result |-> PyStr("42")])}

\* the exceptions process_command raises
AgentRaises ==
    {Exc("RuntimeError", "agent failed"),
     Exc("ValueError", "bad value"),
     Exc("JSONDecodeError", "Expecting value: line 1 column 1 (char 0)"),
     Exc("CancelledError", "")}

\* what send_text and receive_text raise on a socket that is not open
Disconnected == Exc("WebSocketDisconnect", "1006")

\* ErrorFrame without the clause of line 236: invalid JSON is reported with
\* the text of its exception
ErrorFrameGeneric(e) ==
    PyDict([type |-> PyStr("error"), message |-> PyStr(e.text)])

\* lines 236-253: the error frame the except clauses of the receive loop send
ErrorFrame(e) ==
    IF e.cls = "JSONDecodeError"
    THEN PyDict([type |-> PyStr("error"), message |-> PyStr("Invalid JSON format")])
    ELSE IF IsValueError(e)
         THEN PyDict([type |-> PyStr("error"), message |-> PyStr(e.text)])
         ELSE PyDict([type |-> PyStr("error"), message |-> PyStr(e.text)])

\* the recognised texts
Texts == {"turn on lights", "stop"}

Sessions == 1..MaxSessions

(***************************************************************************)
(* State.                                                                  *)
(***************************************************************************)
VARIABLES
    raw,        \* normalisation: the agent result being normalised
    built,      \* normalisation: what BuildFrame made of it, PyNone before
    \* ---- module globals of main.py
    wake_word_detector, \* TRUE when the global holds a WakeWordDetector
    speech_recognizer,  \* TRUE when the global holds a SpeechRecognizer
    mcp_connector,      \* TRUE when the global holds an MCPConnector
    mcp_thread,         \* TRUE when the global holds a Thread
    mcp_client,         \* TRUE when the global holds an AlrisMCPClient
    active_websocket,   \* 0 for None, else the session the global designates
    app_state,          \* the attributes set on app.state
    \* ---- state of the collaborators
    wakeListening,      \* wake_word_detector.is_listening
    srListening,        \* speech_recognizer.is_listening
    threadAlive,        \* mcp_thread.is_alive()
    clientConnected,    \* mcp_client.connected
    \* ---- lifespan
    lpc,        \* where lifespan is
    run,        \* how many times lifespan was entered
    retry_count, \* local of the retry loop
    connected,  \* local of the retry loop
    log,        \* the steps of this run, each with its outcome
    startupExc, \* TRUE when the try part raised
    shutdownExc, \* TRUE when the finally part raised
    \* ---- websocket_endpoint, one per session
    spc,        \* where the handler is
    sock,       \* the socket: "none", "open", "peer_closed", "closed"
    nrecv,      \* inbound frames received
    cur,        \* the frame being processed, "" when none
    prevBad,    \* TRUE when the frame before cur was not valid JSON
    invoked,    \* TRUE when process_command was called for cur
    exc,        \* the exception raised for cur, NoExc when none was; or the
                \* exception that ended the loop
    out,        \* the frame line 234 is about to send
    replies,    \* frames of type response or error sent since cur arrived
    lastSent,   \* the last frame the handler sent
    closedWhen, \* the state of the socket when line 259 called close()
    hraised,    \* TRUE when the handler ended by raising
    \* ---- audio callbacks
    wpc,        \* on_wake_word_detected: "idle", "check", "start"
    detected,   \* its argument
    tpc,        \* on_speech_recognized: "idle", "check", "send", "stop"
    text,       \* its argument
    nspeech,    \* texts recognised so far
    speech,     \* per session, the speech_command frames delivered to it
    \* ---- health_check
    hpc,        \* where the handler of GET /health is
    health      \* the statuses it has computed, and whether it raised

normVars == <<raw, built>>
globalVars == <<wake_word_detector, speech_recognizer, mcp_connector, mcp_thread,
                mcp_client, app_state>>
collabVars == <<wakeListening, srListening, threadAlive, clientConnected>>
lifeVars == <<lpc, run, retry_count, connected, log, startupExc, shutdownExc>>
wsVars == <<spc, sock, nrecv, cur, prevBad, invoked, exc, out, replies, lastSent,
            closedWhen, hraised>>
audioVars == <<wpc, detected, tpc, text, nspeech, speech>>
healthVars == <<hpc, health>>

vars == <<normVars, globalVars, collabVars, lifeVars, wsVars, audioVars,
          healthVars, active_websocket>>

(***************************************************************************)
(* The state when main.py has been imported (lines 29-38) and nothing has  *)
(* run yet.                                                                *)
(***************************************************************************)
NormIdle == raw = PyNone /\ built = [exc |-> NoExc, frame |-> PyNone]

GlobalsInit ==
    /\ wake_word_detector = FALSE
    /\ speech_recognizer = FALSE
    /\ mcp_connector = FALSE
    /\ mcp_thread = FALSE
    /\ mcp_client = FALSE
    /\ active_websocket = 0
    /\ app_state = {}

CollabInit ==
    /\ wakeListening = FALSE
    /\ srListening = FALSE
    /\ threadAlive = FALSE
    /\ clientConnected = FALSE

LifeInit ==
    /\ lpc = "init"
    /\ run = 0
    /\ retry_count = 0
    /\ connected = FALSE
    /\ log = <<>>
    /\ startupExc = FALSE
    /\ shutdownExc = FALSE

WsInit ==
    /\ spc = [s \in Sessions |-> "idle"]
    /\ sock = [s \in Sessions |-> "none"]
    /\ nrecv = [s \in Sessions |-> 0]
    /\ cur = [s \in Sessions |-> ""]
    /\ prevBad = [s \in Sessions |-> FALSE]
    /\ invoked = [s \in Sessions |-> FALSE]
    /\ exc = [s \in Sessions |-> NoExc]
    /\ out = [s \in Sessions |-> PyNone]
    /\ replies = [s \in Sessions |-> 0]
    /\ lastSent = [s \in Sessions |-> PyNone]
    /\ closedWhen = [s \in Sessions |-> "none"]
    /\ hraised = [s \in Sessions |-> FALSE]

AudioInit ==
    /\ wpc = "idle"
    /\ detected = FALSE
    /\ tpc = "idle"
    /\ text = ""
    /\ nspeech = 0
    /\ speech = [s \in Sessions |-> <<>>]

\* no request for /health has been made
NoHealth ==
    [mcp_connector |-> "", mcp_client |-> "", wake_word_detector |-> "",
     speech_recognizer |-> "", raised |-> FALSE]

HealthInit ==
    /\ hpc = "idle"
    /\ health = NoHealth

Init ==
    NormIdle /\ GlobalsInit /\ CollabInit /\ LifeInit /\ WsInit /\ AudioInit /\ HealthInit

(***************************************************************************)
(* The normalisation on its own: one agent result, any of AgentResults,    *)
(* normalised once (lines 190-232).                                        *)
(***************************************************************************)
NormInit ==
    /\ raw \in AgentResults
    /\ built = [exc |-> NoExc, frame |-> PyNone]
    /\ GlobalsInit /\ CollabInit /\ LifeInit /\ WsInit /\ AudioInit /\ HealthInit

Normalise ==
    /\ built = [exc |-> NoExc, frame |-> PyNone]
    /\ built' = BuildFrame(raw)
    /\ UNCHANGED raw
    /\ UNCHANGED <<globalVars, collabVars, lifeVars, wsVars, audioVars, healthVars,
                   active_websocket>>

NormNext == Normalise

SpecNorm == NormInit /\ [][NormNext]_vars

(***************************************************************************)
(* The event loop (lifespan, the session handlers and health_check run on  *)
(* it).  It runs one handler at a time and changes handler only at an      *)
(* await.  A session handler is between awaits when an exception has left  *)
(* its loop and line 258 has not run yet; health_check has no await at     *)
(* all.                                                                    *)
(***************************************************************************)
\* the event loop is free for session s: no other handler is between awaits
EventLoopFreeFor(s) ==
    /\ hpc = "idle"
    /\ \A t \in Sessions \ {s} : spc[t] # "finally"

\* the event loop is free for lifespan and for a new request
EventLoopFree == EventLoopFreeFor(0)

(***************************************************************************)
(* lifespan (lines 65-148).  Every call into a collaborator is one step;   *)
(* its outcome o is "ok", or "raise" when the call raises; "skip" stands   *)
(* for a step whose guard is false, so that nothing is called.             *)
(***************************************************************************)
\* line 92
max_retries == 3

Logged(step, o) == Append(log, [step |-> step, res |-> o])

\* an exception leaves the try part: control goes to the finally part
StartupRaise(step) ==
    /\ log' = Logged(step, "raise")
    /\ startupExc' = TRUE
    /\ lpc' = "wake_stop"

\* an exception leaves the finally part: the rest of it is not executed
ShutdownRaise(step) ==
    /\ log' = Logged(step, "raise")
    /\ shutdownExc' = TRUE
    /\ lpc' = "done"

\* a step that went well
Pass(step, o, next) ==
    /\ log' = Logged(step, o)
    /\ lpc' = next

\* lines 65-71: the server enters lifespan
LEnter ==
    /\ lpc \in {"init", "done"}
    /\ EventLoopFree
    /\ run < MaxRuns
    /\ run' = run + 1
    /\ lpc' = "wake_new"
    /\ log' = <<>>
    /\ startupExc' = FALSE
    /\ shutdownExc' = FALSE
    /\ retry_count' = 0
    /\ connected' = FALSE
    /\ UNCHANGED <<normVars, healthVars, globalVars, collabVars, wsVars, audioVars, active_websocket>>

\* line 73: wake_word_detector = WakeWordDetector()
LWakeNew(o) ==
    /\ lpc = "wake_new"
    /\ EventLoopFree
    /\ o \in {"ok", "raise"}
    /\ IF o = "ok"
       THEN /\ wake_word_detector' = TRUE
            /\ wakeListening' = FALSE
            /\ Pass("wake_new", o, "sr_new")
            /\ UNCHANGED startupExc
       ELSE /\ StartupRaise("wake_new")
            /\ UNCHANGED <<wake_word_detector, wakeListening>>
    /\ UNCHANGED <<run, retry_count, connected, shutdownExc>>
    /\ UNCHANGED <<speech_recognizer, mcp_connector, mcp_thread, mcp_client, app_state>>
    /\ UNCHANGED <<srListening, threadAlive, clientConnected>>
    /\ UNCHANGED <<normVars, healthVars, wsVars, audioVars, active_websocket>>

\* line 74: speech_recognizer = SpeechRecognizer()
LSrNew(o) ==
    /\ lpc = "sr_new"
    /\ EventLoopFree
    /\ o \in {"ok", "raise"}
    /\ IF o = "ok"
       THEN /\ speech_recognizer' = TRUE
            /\ srListening' = FALSE
            /\ Pass("sr_new", o, "wake_start")
            /\ UNCHANGED startupExc
       ELSE /\ StartupRaise("sr_new")
            /\ UNCHANGED <<speech_recognizer, srListening>>
    /\ UNCHANGED <<run, retry_count, connected, shutdownExc>>
    /\ UNCHANGED <<wake_word_detector, mcp_connector, mcp_thread, mcp_client, app_state>>
    /\ UNCHANGED <<wakeListening, threadAlive, clientConnected>>
    /\ UNCHANGED <<normVars, healthVars, wsVars, audioVars, active_websocket>>

\* line 77: wake_word_detector.start(on_wake_word_detected)
LWakeStart(o) ==
    /\ lpc = "wake_start"
    /\ EventLoopFree
    /\ o \in {"ok", "raise"}
    /\ IF o = "ok"
       THEN /\ wakeListening' = TRUE
            /\ Pass("wake_start", o, "connector")
            /\ UNCHANGED startupExc
       ELSE /\ StartupRaise("wake_start")
            /\ UNCHANGED wakeListening
    /\ UNCHANGED <<run, retry_count, connected, shutdownExc>>
    /\ UNCHANGED globalVars
    /\ UNCHANGED <<srListening, threadAlive, clientConnected>>
    /\ UNCHANGED <<normVars, healthVars, wsVars, audioVars, active_websocket>>

\* lines 79-81: construct the connector if absent
LConnector(o) ==
    /\ lpc = "connector"
    /\ EventLoopFree
    /\ IF mcp_connector THEN o = "skip" ELSE o \in {"ok", "raise"}
    /\ IF o = "raise"
       THEN /\ StartupRaise("connector")
            /\ UNCHANGED mcp_connector
       ELSE /\ mcp_connector' = TRUE
            /\ Pass("connector", o, "thread")
            /\ UNCHANGED startupExc
    /\ UNCHANGED <<run, retry_count, connected, shutdownExc>>
    /\ UNCHANGED <<wake_word_detector, speech_recognizer, mcp_thread, mcp_client, app_state>>
    /\ UNCHANGED collabVars
    /\ UNCHANGED <<normVars, healthVars, wsVars, audioVars, active_websocket>>

\* lines 83-87: start the thread if there is none alive, then sleep(1)
LThread(o) ==
    /\ lpc = "thread"
    /\ EventLoopFree
    /\ IF mcp_thread /\ threadAlive THEN o = "skip" ELSE o \in {"ok", "raise"}
    /\ IF o = "raise"
       THEN /\ StartupRaise("thread")
            /\ UNCHANGED <<mcp_thread, threadAlive>>
       ELSE /\ mcp_thread' = TRUE
            /\ threadAlive' = TRUE
            /\ Pass("thread", o, "client")
            /\ UNCHANGED startupExc
    /\ UNCHANGED <<run, retry_count, connected, shutdownExc>>
    /\ UNCHANGED <<wake_word_detector, speech_recognizer, mcp_connector, mcp_client, app_state>>
    /\ UNCHANGED <<wakeListening, srListening, clientConnected>>
    /\ UNCHANGED <<normVars, healthVars, wsVars, audioVars, active_websocket>>

\* lines 89-94: construct the client if absent and set up the retry loop;
\* with a client present the retry loop is not entered
LClient(o) ==
    /\ lpc = "client"
    /\ EventLoopFree
    /\ IF mcp_client THEN o = "skip" ELSE o \in {"ok", "raise"}
    /\ CASE o = "ok" ->
              /\ mcp_client' = TRUE
              /\ clientConnected' = FALSE
              /\ retry_count' = 0
              /\ connected' = FALSE
              /\ Pass("client", o, "retry")
              /\ UNCHANGED startupExc
         [] o = "skip" ->
              /\ Pass("client", o, "agent_new")
              /\ UNCHANGED <<mcp_client, clientConnected, retry_count, connected, startupExc>>
         [] o = "raise" ->
              /\ StartupRaise("client")
              /\ UNCHANGED <<mcp_client, clientConnected, retry_count, connected>>
    /\ UNCHANGED <<run, shutdownExc>>
    /\ UNCHANGED <<wake_word_detector, speech_recognizer, mcp_connector, mcp_thread, app_state>>
    /\ UNCHANGED <<wakeListening, srListening, threadAlive>>
    /\ UNCHANGED <<normVars, healthVars, wsVars, audioVars, active_websocket>>

\* RetryGuard off by one: a fourth attempt is made
RetryGuardOffByOne == retry_count <= max_retries /\ ~connected

\* line 96: the condition of the retry loop
RetryGuard == retry_count < max_retries /\ ~connected

\* line 104: whether a failed attempt is followed by a sleep
SleepGuard(count) == count < max_retries

\* lines 96-108, one turn of the loop up to its sleep:
\* connected = await mcp_client.connect()
LConnect(o) ==
    /\ lpc = "retry"
    /\ EventLoopFree
    /\ RetryGuard
    /\ o \in {"ok", "false", "raise"}
    /\ CASE o = "ok" ->
              /\ connected' = TRUE
              /\ clientConnected' = TRUE
              /\ Pass("connect", o, "retry")
              /\ UNCHANGED <<retry_count, startupExc>>
         [] o = "false" ->
              /\ connected' = FALSE
              /\ retry_count' = retry_count + 1
              /\ Pass("connect", o, IF SleepGuard(retry_count + 1) THEN "sleep" ELSE "retry")
              /\ UNCHANGED <<clientConnected, startupExc>>
         [] o = "raise" ->
              /\ StartupRaise("connect")
              /\ UNCHANGED <<connected, clientConnected, retry_count>>
    /\ UNCHANGED <<run, shutdownExc>>
    /\ UNCHANGED globalVars
    /\ UNCHANGED <<wakeListening, srListening, threadAlive>>
    /\ UNCHANGED <<normVars, healthVars, wsVars, audioVars, active_websocket>>

\* line 106: await asyncio.sleep(2)
LSleep ==
    /\ lpc = "sleep"
    /\ EventLoopFree
    /\ Pass("sleep", "ok", "retry")
    /\ UNCHANGED <<run, retry_count, connected, startupExc, shutdownExc>>
    /\ UNCHANGED <<normVars, healthVars, globalVars, collabVars, wsVars, audioVars, active_websocket>>

\* LRetryExit with a retry loop that gives up by raising: the loop is left
\* without a connection through an exception
LRetryExitAborts ==
    /\ lpc = "retry"
    /\ EventLoopFree
    /\ ~RetryGuard
    /\ IF connected
       THEN lpc' = "agent_new" /\ UNCHANGED <<log, startupExc>>
       ELSE StartupRaise("retry_exhausted")
    /\ UNCHANGED <<run, retry_count, connected, shutdownExc>>
    /\ UNCHANGED <<normVars, healthVars, globalVars, collabVars, wsVars, audioVars, active_websocket>>

\* line 96, the condition false: the loop is left
LRetryExit ==
    /\ lpc = "retry"
    /\ EventLoopFree
    /\ ~RetryGuard
    /\ lpc' = "agent_new"
    /\ UNCHANGED <<run, retry_count, connected, log, startupExc, shutdownExc>>
    /\ UNCHANGED <<normVars, healthVars, globalVars, collabVars, wsVars, audioVars, active_websocket>>

\* line 110: agent_orchestrator = AgentOrchestrator()
LAgentNew(o) ==
    /\ lpc = "agent_new"
    /\ EventLoopFree
    /\ o \in {"ok", "raise"}
    /\ IF o = "ok"
       THEN Pass("agent_new", o, "set_client") /\ UNCHANGED startupExc
       ELSE StartupRaise("agent_new")
    /\ UNCHANGED <<run, retry_count, connected, shutdownExc>>
    /\ UNCHANGED <<normVars, healthVars, globalVars, collabVars, wsVars, audioVars, active_websocket>>

\* line 111: agent_orchestrator.set_mcp_client(mcp_client)
LSetClient(o) ==
    /\ lpc = "set_client"
    /\ EventLoopFree
    /\ o \in {"ok", "raise"}
    /\ IF o = "ok"
       THEN Pass("set_client", o, "publish") /\ UNCHANGED startupExc
       ELSE StartupRaise("set_client")
    /\ UNCHANGED <<run, retry_count, connected, shutdownExc>>
    /\ UNCHANGED <<normVars, healthVars, globalVars, collabVars, wsVars, audioVars, active_websocket>>

\* the four handles of lines 114-117
Handles == {"mcp_connector", "mcp_thread", "mcp_client", "agent_orchestrator"}

\* lines 114-119: publish the handles on app.state and yield
LPublish ==
    /\ lpc = "publish"
    /\ EventLoopFree
    /\ app_state' = app_state \cup Handles
    /\ Pass("publish", "ok", "serving")
    /\ UNCHANGED <<run, retry_count, connected, startupExc, shutdownExc>>
    /\ UNCHANGED <<wake_word_detector, speech_recognizer, mcp_connector, mcp_thread, mcp_client>>
    /\ UNCHANGED <<normVars, healthVars, collabVars, wsVars, audioVars, active_websocket>>

\* lines 119-121: the server shuts down, the generator resumes after yield
LShutdown ==
    /\ lpc = "serving"
    /\ EventLoopFree
    /\ lpc' = "wake_stop"
    /\ UNCHANGED <<run, retry_count, connected, log, startupExc, shutdownExc>>
    /\ UNCHANGED <<normVars, healthVars, globalVars, collabVars, wsVars, audioVars, active_websocket>>

\* lines 124-125: if wake_word_detector: wake_word_detector.stop()
LWakeStop(o) ==
    /\ lpc = "wake_stop"
    /\ EventLoopFree
    /\ IF wake_word_detector THEN o \in {"ok", "raise"} ELSE o = "skip"
    /\ CASE o = "ok" ->
              /\ wakeListening' = FALSE
              /\ Pass("wake_stop", o, "sr_stop")
              /\ UNCHANGED shutdownExc
         [] o = "skip" ->
              /\ Pass("wake_stop", o, "sr_stop")
              /\ UNCHANGED <<wakeListening, shutdownExc>>
         [] o = "raise" ->
              /\ ShutdownRaise("wake_stop")
              /\ UNCHANGED wakeListening
    /\ UNCHANGED <<run, retry_count, connected, startupExc>>
    /\ UNCHANGED globalVars
    /\ UNCHANGED <<srListening, threadAlive, clientConnected>>
    /\ UNCHANGED <<normVars, healthVars, wsVars, audioVars, active_websocket>>

\* lines 126-127: if speech_recognizer: speech_recognizer.stop()
LSrStop(o) ==
    /\ lpc = "sr_stop"
    /\ EventLoopFree
    /\ IF speech_recognizer THEN o \in {"ok", "raise"} ELSE o = "skip"
    /\ CASE o = "ok" ->
              /\ srListening' = FALSE
              /\ Pass("sr_stop", o, "disconnect")
              /\ UNCHANGED shutdownExc
         [] o = "skip" ->
              /\ Pass("sr_stop", o, "disconnect")
              /\ UNCHANGED <<srListening, shutdownExc>>
         [] o = "raise" ->
              /\ ShutdownRaise("sr_stop")
              /\ UNCHANGED srListening
    /\ UNCHANGED <<run, retry_count, connected, startupExc>>
    /\ UNCHANGED globalVars
    /\ UNCHANGED <<wakeListening, threadAlive, clientConnected>>
    /\ UNCHANGED <<normVars, healthVars, wsVars, audioVars, active_websocket>>

\* LDisconnect without the try of line 130: a timeout or an exception of
\* disconnect() leaves the finally part
LDisconnectUnguarded(o) ==
    /\ lpc = "disconnect"
    /\ EventLoopFree
    /\ IF mcp_client THEN o \in {"ok", "timeout", "raise"} ELSE o = "skip"
    /\ IF o = "ok"
       THEN mcp_client' = FALSE /\ clientConnected' = FALSE
       ELSE UNCHANGED <<mcp_client, clientConnected>>
    /\ IF o \in {"timeout", "raise"}
       THEN ShutdownRaise("disconnect")
       ELSE Pass("disconnect", o, "connector_stop") /\ UNCHANGED shutdownExc
    /\ UNCHANGED <<run, retry_count, connected, startupExc>>
    /\ UNCHANGED <<wake_word_detector, speech_recognizer, mcp_connector, mcp_thread, app_state>>
    /\ UNCHANGED <<wakeListening, srListening, threadAlive>>
    /\ UNCHANGED <<normVars, healthVars, wsVars, audioVars, active_websocket>>

\* lines 129-137: disconnect the client within 3 seconds; a timeout and an
\* exception are caught, the global is cleared on success only
LDisconnect(o) ==
    /\ lpc = "disconnect"
    /\ EventLoopFree
    /\ IF mcp_client THEN o \in {"ok", "timeout", "raise"} ELSE o = "skip"
    /\ IF o = "ok"
       THEN mcp_client' = FALSE /\ clientConnected' = FALSE
       ELSE UNCHANGED <<mcp_client, clientConnected>>
    /\ Pass("disconnect", o, "connector_stop")
    /\ UNCHANGED <<run, retry_count, connected, startupExc, shutdownExc>>
    /\ UNCHANGED <<wake_word_detector, speech_recognizer, mcp_connector, mcp_thread, app_state>>
    /\ UNCHANGED <<wakeListening, srListening, threadAlive>>
    /\ UNCHANGED <<normVars, healthVars, wsVars, audioVars, active_websocket>>

\* lines 139-145: shut the connector down; an exception is caught, the global
\* is cleared on success only
LConnectorStop(o) ==
    /\ lpc = "connector_stop"
    /\ EventLoopFree
    /\ IF mcp_connector THEN o \in {"ok", "raise"} ELSE o = "skip"
    /\ IF o = "ok"
       THEN mcp_connector' = FALSE
       ELSE UNCHANGED mcp_connector
    /\ Pass("connector_stop", o, "cleanup")
    /\ UNCHANGED <<run, retry_count, connected, startupExc, shutdownExc>>
    /\ UNCHANGED <<wake_word_detector, speech_recognizer, mcp_thread, mcp_client, app_state>>
    /\ UNCHANGED collabVars
    /\ UNCHANGED <<normVars, healthVars, wsVars, audioVars, active_websocket>>

\* lines 147-148: if app.state has an agent_orchestrator, await its cleanup()
LCleanup(o) ==
    /\ lpc = "cleanup"
    /\ EventLoopFree
    /\ IF "agent_orchestrator" \in app_state THEN o \in {"ok", "raise"} ELSE o = "skip"
    /\ IF o = "raise"
       THEN ShutdownRaise("cleanup")
       ELSE Pass("cleanup", o, "done") /\ UNCHANGED shutdownExc
    /\ UNCHANGED <<run, retry_count, connected, startupExc>>
    /\ UNCHANGED <<normVars, healthVars, globalVars, collabVars, wsVars, audioVars, active_websocket>>

\* the target of mcp_thread returns: mcp_connector.run() ended
ThreadExit ==
    /\ mcp_thread /\ threadAlive
    /\ threadAlive' = FALSE
    /\ UNCHANGED <<wakeListening, srListening, clientConnected>>
    /\ UNCHANGED <<normVars, healthVars, globalVars, lifeVars, wsVars, audioVars, active_websocket>>

\* the outcomes of the calls lifespan makes
Outcomes == {"ok", "skip", "false", "timeout", "raise"}

\* the outcomes of a run in which no call raises or times out
Smooth == {"ok", "skip", "false"}

Startup(O) ==
    \/ LEnter
    \/ \E o \in O : LWakeNew(o)
    \/ \E o \in O : LSrNew(o)
    \/ \E o \in O : LWakeStart(o)
    \/ \E o \in O : LConnector(o)
    \/ \E o \in O : LThread(o)
    \/ \E o \in O : LClient(o)
    \/ \E o \in O : LConnect(o)
    \/ LSleep
    \/ LRetryExit
    \/ \E o \in O : LAgentNew(o)
    \/ \E o \in O : LSetClient(o)
    \/ LPublish

Shutdown(O) ==
    \/ LShutdown
    \/ \E o \in O : LWakeStop(o)
    \/ \E o \in O : LSrStop(o)
    \/ \E o \in O : LDisconnect(o)
    \/ \E o \in O : LConnectorStop(o)
    \/ \E o \in O : LCleanup(o)

(***************************************************************************)
(* The lifespan on its own: startup and shutdown with every outcome of     *)
(* every call, entered MaxRuns times.                                      *)
(***************************************************************************)
LifeNext == Startup(Outcomes) \/ Shutdown(Outcomes) \/ ThreadExit

SpecLife == Init /\ [][LifeNext]_vars

(***************************************************************************)
(* websocket_endpoint (lines 165-259), one instance per session s.  The    *)
(* handler runs on the event loop: it is interleaved with the others at    *)
(* its awaits (accept, receive_text, process_command, send_text, close).   *)
(***************************************************************************)
\* the peer opens a connection; line 169: await websocket.accept()
WsAccept(s) ==
    /\ lpc = "serving"
    /\ spc[s] = "idle"
    /\ EventLoopFreeFor(s)
    /\ spc' = [spc EXCEPT ![s] = "accepted"]
    /\ sock' = [sock EXCEPT ![s] = "open"]
    /\ UNCHANGED <<nrecv, cur, prevBad, invoked, exc, out, replies, lastSent,
                   closedWhen, hraised>>
    /\ UNCHANGED <<normVars, healthVars, globalVars, collabVars, lifeVars, audioVars, active_websocket>>

\* WsRegister that keeps the session that is active: the global is set
\* only when it is None
WsRegisterIfFree(s) ==
    /\ spc[s] = "accepted"
    /\ EventLoopFreeFor(s)
    /\ active_websocket' = IF active_websocket = 0 THEN s ELSE active_websocket
    /\ spc' = [spc EXCEPT ![s] = "recv"]
    /\ UNCHANGED <<sock, nrecv, cur, prevBad, invoked, exc, out, replies, lastSent,
                   closedWhen, hraised>>
    /\ UNCHANGED <<normVars, healthVars, globalVars, collabVars, lifeVars, audioVars>>

\* lines 170-176: active_websocket = websocket, then the loop is entered
WsRegister(s) ==
    /\ spc[s] = "accepted"
    /\ EventLoopFreeFor(s)
    /\ active_websocket' = s
    /\ spc' = [spc EXCEPT ![s] = "recv"]
    /\ UNCHANGED <<sock, nrecv, cur, prevBad, invoked, exc, out, replies, lastSent,
                   closedWhen, hraised>>
    /\ UNCHANGED <<normVars, healthVars, globalVars, collabVars, lifeVars, audioVars>>

\* the peer closes the connection
PeerClose(s) ==
    /\ sock[s] = "open"
    /\ sock' = [sock EXCEPT ![s] = "peer_closed"]
    /\ UNCHANGED <<spc, nrecv, cur, prevBad, invoked, exc, out, replies, lastSent,
                   closedWhen, hraised>>
    /\ UNCHANGED <<normVars, healthVars, globalVars, collabVars, lifeVars, audioVars, active_websocket>>

\* lines 177-187: receive_text() returns message; it is parsed and validated,
\* and process_command is called with its command, or an exception is raised
\* into the except clauses
WsReceive(s, message) ==
    /\ spc[s] = "recv"
    /\ EventLoopFreeFor(s)
    /\ sock[s] = "open"
    /\ nrecv[s] < MaxFrames
    /\ LET parsed == ParseCommand(message)
       IN  /\ exc' = [exc EXCEPT ![s] = parsed.exc]
           /\ invoked' = [invoked EXCEPT ![s] = (parsed.exc = NoExc)]
           /\ spc' = [spc EXCEPT ![s] = IF parsed.exc = NoExc THEN "agent" ELSE "handler"]
    /\ nrecv' = [nrecv EXCEPT ![s] = @ + 1]
    /\ prevBad' = [prevBad EXCEPT ![s] = (cur[s] # "" /\ JsonLoads(cur[s]).exc # NoExc)]
    /\ cur' = [cur EXCEPT ![s] = message]
    /\ replies' = [replies EXCEPT ![s] = 0]
    /\ UNCHANGED <<sock, out, lastSent, closedWhen, hraised>>
    /\ UNCHANGED <<normVars, healthVars, globalVars, collabVars, lifeVars, audioVars, active_websocket>>

\* line 177 on a socket the peer closed: receive_text() raises, the exception
\* leaves the loop and is caught at line 255
WsReceiveClosed(s) ==
    /\ spc[s] = "recv"
    /\ EventLoopFreeFor(s)
    /\ sock[s] # "open"
    /\ exc' = [exc EXCEPT ![s] = Disconnected]
    /\ spc' = [spc EXCEPT ![s] = "finally"]
    /\ UNCHANGED <<sock, nrecv, cur, prevBad, invoked, out, replies, lastSent,
                   closedWhen, hraised>>
    /\ UNCHANGED <<normVars, healthVars, globalVars, collabVars, lifeVars, audioVars, active_websocket>>

\* lines 187-232: process_command returns response and the frame is built,
\* or building it raises into the except clauses
WsAgentReturn(s, response) ==
    /\ spc[s] = "agent"
    /\ EventLoopFreeFor(s)
    /\ LET b == BuildFrame(response)
       IN  /\ exc' = [exc EXCEPT ![s] = b.exc]
           /\ out' = [out EXCEPT ![s] = b.frame]
           /\ spc' = [spc EXCEPT ![s] = IF b.exc = NoExc THEN "send" ELSE "handler"]
    /\ UNCHANGED <<sock, nrecv, cur, prevBad, invoked, replies, lastSent,
                   closedWhen, hraised>>
    /\ UNCHANGED <<normVars, healthVars, globalVars, collabVars, lifeVars, audioVars, active_websocket>>

\* line 187: process_command raises e; an Exception goes to the except
\* clauses, anything else leaves the loop and line 255 and reaches finally
WsAgentRaise(s, e) ==
    /\ spc[s] = "agent"
    /\ EventLoopFreeFor(s)
    /\ exc' = [exc EXCEPT ![s] = e]
    /\ spc' = [spc EXCEPT ![s] = IF IsException(e) THEN "handler" ELSE "finally"]
    /\ UNCHANGED <<sock, nrecv, cur, prevBad, invoked, out, replies, lastSent,
                   closedWhen, hraised>>
    /\ UNCHANGED <<normVars, healthVars, globalVars, collabVars, lifeVars, audioVars, active_websocket>>

\* line 234: await websocket.send_text(json.dumps(ws_response)); on a socket
\* that is not open it raises inside the try, into the except clauses
WsSend(s) ==
    /\ spc[s] = "send"
    /\ EventLoopFreeFor(s)
    /\ IF sock[s] = "open"
       THEN /\ lastSent' = [lastSent EXCEPT ![s] = out[s]]
            /\ replies' = [replies EXCEPT ![s] = @ + 1]
            /\ spc' = [spc EXCEPT ![s] = "recv"]
            /\ UNCHANGED exc
       ELSE /\ exc' = [exc EXCEPT ![s] = Disconnected]
            /\ spc' = [spc EXCEPT ![s] = "handler"]
            /\ UNCHANGED <<lastSent, replies>>
    /\ out' = [out EXCEPT ![s] = PyNone]
    /\ UNCHANGED <<sock, nrecv, cur, prevBad, invoked, closedWhen, hraised>>
    /\ UNCHANGED <<normVars, healthVars, globalVars, collabVars, lifeVars, audioVars, active_websocket>>

\* WsHandler with except clauses that log and send nothing
WsHandlerSilent(s) ==
    /\ spc[s] = "handler"
    /\ EventLoopFreeFor(s)
    /\ spc' = [spc EXCEPT ![s] = "recv"]
    /\ UNCHANGED <<sock, nrecv, cur, prevBad, invoked, exc, out, replies, lastSent,
                   closedWhen, hraised>>
    /\ UNCHANGED <<normVars, healthVars, globalVars, collabVars, lifeVars, audioVars, active_websocket>>

\* lines 236-253: the except clause sends its error frame and the loop goes
\* on; on a socket that is not open the send raises out of the loop and is
\* caught at line 255
WsHandler(s) ==
    /\ spc[s] = "handler"
    /\ EventLoopFreeFor(s)
    /\ IF sock[s] = "open"
       THEN /\ lastSent' = [lastSent EXCEPT ![s] = ErrorFrame(exc[s])]
            /\ replies' = [replies EXCEPT ![s] = @ + 1]
            /\ spc' = [spc EXCEPT ![s] = "recv"]
            /\ UNCHANGED exc
       ELSE /\ exc' = [exc EXCEPT ![s] = Disconnected]
            /\ spc' = [spc EXCEPT ![s] = "finally"]
            /\ UNCHANGED <<lastSent, replies>>
    /\ UNCHANGED <<sock, nrecv, cur, prevBad, invoked, out, closedWhen, hraised>>
    /\ UNCHANGED <<normVars, healthVars, globalVars, collabVars, lifeVars, audioVars, active_websocket>>

\* line 258: active_websocket = None
WsFinally(s) ==
    /\ spc[s] = "finally"
    /\ EventLoopFreeFor(s)
    /\ active_websocket' = 0
    /\ spc' = [spc EXCEPT ![s] = "close"]
    /\ UNCHANGED <<sock, nrecv, cur, prevBad, invoked, exc, out, replies, lastSent,
                   closedWhen, hraised>>
    /\ UNCHANGED <<normVars, healthVars, globalVars, collabVars, lifeVars, audioVars>>

\* line 259: await websocket.close(), whatever the state of the socket.  On
\* a socket that is not open close() raises or not, depending on the server
\* (failed); an exception that was not caught at line 255 is re-raised.
WsClose(s, failed) ==
    /\ spc[s] = "close"
    /\ EventLoopFreeFor(s)
    /\ sock[s] = "open" => ~failed
    /\ closedWhen' = [closedWhen EXCEPT ![s] = sock[s]]
    /\ sock' = [sock EXCEPT ![s] = "closed"]
    /\ hraised' = [hraised EXCEPT ![s] = failed \/ (exc[s] # NoExc /\ ~IsException(exc[s]))]
    /\ spc' = [spc EXCEPT ![s] = "closed"]
    /\ UNCHANGED <<nrecv, cur, prevBad, invoked, exc, out, replies, lastSent>>
    /\ UNCHANGED <<normVars, healthVars, globalVars, collabVars, lifeVars, audioVars, active_websocket>>

\* the steps of session s, its frames drawn from M, the agent's results from
\* R and the agent's exceptions from E
Session(s, M, R, E) ==
    \/ WsAccept(s)
    \/ WsRegister(s)
    \/ PeerClose(s)
    \/ \E message \in M : WsReceive(s, message)
    \/ WsReceiveClosed(s)
    \/ \E response \in R : WsAgentReturn(s, response)
    \/ \E e \in E : WsAgentRaise(s, e)
    \/ WsSend(s)
    \/ WsHandler(s)
    \/ WsFinally(s)
    \/ \E failed \in BOOLEAN : WsClose(s, failed)

(***************************************************************************)
(* One session served after a startup in which no call fails: every frame, *)
(* every result and every exception of the agent.                          *)
(***************************************************************************)
SessionNext == Startup(Smooth) \/ Session(1, Messages, SessionResults, AgentRaises)

SpecSession == Init /\ [][SessionNext]_vars

(***************************************************************************)
(* The audio callbacks (lines 49-63).  Each runs on a thread of the audio  *)
(* pipeline, so every read or write of a global is a step of its own.      *)
(***************************************************************************)
\* lines 59-62: the frame on_speech_recognized sends
SpeechFrame(t) == PyDict([type |-> PyStr("speech_command"), command |-> PyStr(t)])

\* the WakeWordDetector, listening, calls on_wake_word_detected(d)
WakeFire(d) ==
    /\ wake_word_detector /\ wakeListening
    /\ wpc = "idle"
    /\ wpc' = "check"
    /\ detected' = d
    /\ UNCHANGED <<tpc, text, nspeech, speech>>
    /\ UNCHANGED <<normVars, healthVars, globalVars, collabVars, lifeVars, wsVars, active_websocket>>

\* line 51: if detected and speech_recognizer
WakeCheck ==
    /\ wpc = "check"
    /\ wpc' = IF detected /\ speech_recognizer THEN "start" ELSE "idle"
    /\ detected' = FALSE
    /\ UNCHANGED <<tpc, text, nspeech, speech>>
    /\ UNCHANGED <<normVars, healthVars, globalVars, collabVars, lifeVars, wsVars, active_websocket>>

\* line 53: speech_recognizer.start(on_speech_recognized)
WakeStart ==
    /\ wpc = "start"
    /\ srListening' = TRUE
    /\ wpc' = "idle"
    /\ UNCHANGED <<detected, tpc, text, nspeech, speech>>
    /\ UNCHANGED <<wakeListening, threadAlive, clientConnected>>
    /\ UNCHANGED <<normVars, healthVars, globalVars, lifeVars, wsVars, active_websocket>>

\* the SpeechRecognizer, listening, calls on_speech_recognized(t); line 57
TextFire(t) ==
    /\ speech_recognizer /\ srListening
    /\ tpc = "idle"
    /\ nspeech < MaxSpeech
    /\ nspeech' = nspeech + 1
    /\ tpc' = "check"
    /\ text' = t
    /\ UNCHANGED <<wpc, detected, speech>>
    /\ UNCHANGED <<normVars, healthVars, globalVars, collabVars, lifeVars, wsVars, active_websocket>>

\* line 58: if active_websocket
TextCheck ==
    /\ tpc = "check"
    /\ tpc' = IF active_websocket # 0 THEN "send" ELSE "stop"
    /\ UNCHANGED <<wpc, detected, text, nspeech, speech>>
    /\ UNCHANGED <<normVars, healthVars, globalVars, collabVars, lifeVars, wsVars, active_websocket>>

\* lines 59-62: asyncio.run(active_websocket.send_text(...)); the global is
\* read again: on None the attribute access raises, on a socket that is not
\* open the send raises, and either exception leaves the callback (its
\* local text is gone with it)
TextSend ==
    /\ tpc = "send"
    /\ IF active_websocket # 0 /\ sock[active_websocket] = "open"
       THEN /\ speech' = [speech EXCEPT ![active_websocket] = Append(@, SpeechFrame(text))]
            /\ tpc' = "stop"
            /\ UNCHANGED text
       ELSE /\ tpc' = "idle"
            /\ text' = ""
            /\ UNCHANGED speech
    /\ UNCHANGED <<wpc, detected, nspeech>>
    /\ UNCHANGED <<normVars, healthVars, globalVars, collabVars, lifeVars, wsVars, active_websocket>>

\* TextStop without line 63: the callback returns and the Transcriber runs on
TextStopForgets ==
    /\ tpc = "stop"
    /\ tpc' = "idle"
    /\ text' = ""
    /\ UNCHANGED <<wpc, detected, nspeech, speech>>
    /\ UNCHANGED <<normVars, healthVars, globalVars, collabVars, lifeVars, wsVars, active_websocket>>

\* line 63: speech_recognizer.stop()
TextStop ==
    /\ tpc = "stop"
    /\ srListening' = FALSE
    /\ tpc' = "idle"
    /\ text' = ""
    /\ UNCHANGED <<wpc, detected, nspeech, speech>>
    /\ UNCHANGED <<wakeListening, threadAlive, clientConnected>>
    /\ UNCHANGED <<normVars, healthVars, globalVars, lifeVars, wsVars, active_websocket>>

Audio(T) ==
    \/ \E d \in BOOLEAN : WakeFire(d)
    \/ WakeCheck
    \/ WakeStart
    \/ \E t \in T : TextFire(t)
    \/ TextCheck
    \/ TextSend
    \/ TextStop

\* the steps of a session whose peer sends no frame: it connects, stays
\* open, and ends when the peer closes
Connection(s) ==
    \/ WsAccept(s)
    \/ WsRegister(s)
    \/ PeerClose(s)
    \/ WsReceiveClosed(s)
    \/ WsFinally(s)
    \/ \E failed \in BOOLEAN : WsClose(s, failed)

(***************************************************************************)
(* The audio pipeline with the sessions it delivers to, from the state the *)
(* server is in when a startup in which every call succeeded has reached   *)
(* its yield.                                                              *)
(***************************************************************************)
ServingLog ==
    [i \in 1..10 |->
        [step |-> <<"wake_new", "sr_new", "wake_start", "connector", "thread", "client",
                    "connect", "agent_new", "set_client", "publish">>[i],
         res |-> "ok"]]

ServingInit ==
    /\ NormIdle /\ WsInit /\ AudioInit /\ HealthInit
    /\ wake_word_detector = TRUE
    /\ speech_recognizer = TRUE
    /\ mcp_connector = TRUE
    /\ mcp_thread = TRUE
    /\ mcp_client = TRUE
    /\ active_websocket = 0
    /\ app_state = Handles
    /\ wakeListening = TRUE
    /\ srListening = FALSE
    /\ threadAlive = TRUE
    /\ clientConnected = TRUE
    /\ lpc = "serving"
    /\ run = 1
    /\ retry_count = 0
    /\ connected = TRUE
    /\ log = ServingLog
    /\ startupExc = FALSE
    /\ shutdownExc = FALSE

AudioNext == (\E s \in Sessions : Connection(s)) \/ Audio(Texts)

SpecAudio == ServingInit /\ [][AudioNext]_vars

(***************************************************************************)
(* The shutdown of a serving server, with the audio callbacks running on   *)
(* their threads and one session beside it.                                *)
(***************************************************************************)
StopNext == Shutdown(Outcomes) \/ Connection(1) \/ Audio(Texts)

SpecStop == ServingInit /\ [][StopNext]_vars

(***************************************************************************)
(* health_check (lines 261-292).  The handler has no await: on the event   *)
(* loop it runs from its first line to its return without lifespan or a    *)
(* session handler in between, while the threads of the audio pipeline and *)
(* of the tool subsystem run on.  app_state holds the names published on   *)
(* app.state; while the server is serving, the objects published are the   *)
(* ones the globals hold.                                                  *)
(***************************************************************************)
\* GET /health arrives; requests are served between the yield of lifespan
\* and its resumption
HealthRequest ==
    /\ lpc = "serving"
    /\ EventLoopFree
    /\ hpc' = "thread"
    /\ health' = NoHealth
    /\ UNCHANGED <<normVars, globalVars, collabVars, lifeVars, wsVars, audioVars,
                   active_websocket>>

\* a line that reads app.state.<attr>: AttributeError, which ends the
\* handler, when nothing was published under that name
HealthRead(here, attr, snapshot, next) ==
    /\ hpc = here
    /\ IF attr \in app_state
       THEN health' = snapshot /\ hpc' = next
       ELSE health' = [health EXCEPT !.raised = TRUE] /\ hpc' = "idle"
    /\ UNCHANGED <<normVars, globalVars, collabVars, lifeVars, wsVars, audioVars,
                   active_websocket>>

\* line 265: mcp_status
HealthThread ==
    HealthRead("thread", "mcp_thread",
               [health EXCEPT !.mcp_connector =
                    IF mcp_thread /\ threadAlive THEN "running" ELSE "stopped"],
               "client")

\* line 266: mcp_client_status
HealthClient ==
    HealthRead("client", "mcp_client",
               [health EXCEPT !.mcp_client =
                    IF mcp_client /\ clientConnected THEN "connected" ELSE "disconnected"],
               "tools")

\* line 273: the tools of app.state.mcp_connector, [] without the attribute
HealthTools == HealthRead("tools", "mcp_connector", health, "wake")

\* line 287: the status of the wake word detector
HealthWake ==
    /\ hpc = "wake"
    /\ health' = [health EXCEPT !.wake_word_detector =
                      IF wake_word_detector /\ wakeListening THEN "running" ELSE "stopped"]
    /\ hpc' = "sr"
    /\ UNCHANGED <<normVars, globalVars, collabVars, lifeVars, wsVars, audioVars,
                   active_websocket>>

\* HealthSr without the test of is_listening: a recognizer that exists is
\* reported as running
HealthSrIfPresent ==
    /\ hpc = "sr"
    /\ health' = [health EXCEPT !.speech_recognizer =
                      IF speech_recognizer THEN "running" ELSE "stopped"]
    /\ hpc' = "idle"
    /\ UNCHANGED <<normVars, globalVars, collabVars, lifeVars, wsVars, audioVars,
                   active_websocket>>

\* lines 288-292: the status of the speech recognizer, and the return
HealthSr ==
    /\ hpc = "sr"
    /\ health' = [health EXCEPT !.speech_recognizer =
                      IF speech_recognizer /\ srListening THEN "running" ELSE "stopped"]
    /\ hpc' = "idle"
    /\ UNCHANGED <<normVars, globalVars, collabVars, lifeVars, wsVars, audioVars,
                   active_websocket>>

Health ==
    \/ HealthRequest
    \/ HealthThread
    \/ HealthClient
    \/ HealthTools
    \/ HealthWake
    \/ HealthSr

(***************************************************************************)
(* The health endpoint of a server that starts with every outcome of every *)
(* call and then serves, with one session, the audio pipeline and the      *)
(* subsystem thread running beside it.                                     *)
(***************************************************************************)
HealthNext ==
    \/ Startup(Outcomes)
    \/ Connection(1)
    \/ ThreadExit
    \/ Audio(Texts)
    \/ Health

SpecHealth == Init /\ [][HealthNext]_vars

(***************************************************************************)
(* The whole server: the lifespan with every outcome, the sessions, each   *)
(* with every frame, and the audio callbacks.                              *)
(***************************************************************************)
Next ==
    \/ Startup(Outcomes)
    \/ Shutdown(Outcomes)
    \/ ThreadExit
    \/ \E s \in Sessions : Session(s, Messages, SessionResults, AgentRaises)
    \/ Audio(Texts)
    \/ Health

Spec == Init /\ [][Next]_vars

(***************************************************************************)
(* Properties.                                                             *)
(***************************************************************************)
\* cur[s] is well-formed JSON with a non-empty command
IsCommandFrame(s) ==
    /\ cur[s] # ""
    /\ JsonLoads(cur[s]).exc = NoExc
    /\ IsDict(JsonLoads(cur[s]).val)
    /\ Truthy(Get(JsonLoads(cur[s]).val, "command", PyNone))

\* the type of the last frame the handler of s sent
LastType(s) == lastSent[s].v["type"].v

\* C1: on one session, when the receive loop is back at receive_text after a
\* frame that is well-formed JSON with a non-empty command, exactly one frame
\* of type "response" or "error" was sent for that frame; at no time were two
\* sent for it, whatever the agent returned or raised.
C1OneReplyPerCommand ==
    \A s \in Sessions :
        IsCommandFrame(s) =>
            /\ replies[s] <= 1
            /\ spc[s] = "recv" =>
                   /\ replies[s] = 1
                   /\ LastType(s) \in {"response", "error"}

\* C1: a command frame was answered with an error frame because the agent
\* raised, and the loop is back at receive_text
C1Witness ==
    \E s \in Sessions :
        /\ IsCommandFrame(s) /\ spc[s] = "recv" /\ replies[s] = 1
        /\ exc[s] = Exc("RuntimeError", "agent failed")
        /\ LastType(s) = "error"

TeardownSteps == {"wake_stop", "sr_stop", "disconnect", "connector_stop", "cleanup"}

\* the finally part went through this step (its guard was evaluated)
Reached(step) == \E i \in 1..Len(log) : log[i].step = step

\* the finally part called the collaborator of this step
Attempted(step) == \E i \in 1..Len(log) : log[i].step = step /\ log[i].res # "skip"

\* C2: when the shutdown that follows a startup without failure has ended, it
\* has not raised and every teardown step was gone through, whichever
\* teardown steps failed.
C2TeardownIsolated ==
    lpc = "done" /\ ~startupExc =>
        ~shutdownExc /\ \A step \in TeardownSteps : Reached(step)

\* C3: when shutdown has ended, after a startup that created none, some or
\* all of the components, in the first run and in a later one, it has not
\* raised and it has attempted the teardown step of every component that
\* exists.
C3ShutdownTotal ==
    lpc = "done" =>
        /\ ~shutdownExc
        /\ wake_word_detector => Attempted("wake_stop")
        /\ speech_recognizer => Attempted("sr_stop")
        /\ mcp_client => Attempted("disconnect")
        /\ mcp_connector => Attempted("connector_stop")
        /\ "agent_orchestrator" \in app_state => Attempted("cleanup")

\* the outcomes of the connect attempts of this run, in order
ConnectResults ==
    LET a == SelectSeq(log, LAMBDA e : e.step = "connect")
    IN  [i \in 1..Len(a) |-> a[i].res]

\* the sleeps of the retry loop in this run
Sleeps == Len(SelectSeq(log, LAMBDA e : e.step = "sleep"))

\* C4: the retry loop makes at most 3 connect attempts and none after a
\* successful one; once the loop is left, a connector that failed twice and
\* then succeeded was tried exactly 3 times with exactly 2 sleeps, and a
\* connector that only failed was tried exactly 3 times with the client not
\* connected and no exception raised.
C4RetryLoop ==
    /\ Len(ConnectResults) <= 3
    /\ \A i \in 1..Len(ConnectResults) - 1 : ConnectResults[i] = "false"
    /\ lpc = "agent_new" /\ ConnectResults # <<>> =>
           /\ ConnectResults[Len(ConnectResults)] = "ok" /\ Len(ConnectResults) = 3
                  => Sleeps = 2 /\ connected /\ clientConnected
           /\ (\A i \in 1..Len(ConnectResults) : ConnectResults[i] = "false")
                  => /\ Len(ConnectResults) = 3
                     /\ Sleeps = 2
                     /\ ~connected /\ ~clientConnected
                     /\ ~startupExc

\* C4: the loop was left after two failures and a success
C4Witness ==
    /\ lpc = "agent_new"
    /\ ConnectResults = <<"false", "false", "ok">>
    /\ Sleeps = 2

\* C5: the step of on_speech_recognized that sends, taken while the global
\* designates an open session, appends exactly the frame speech_command with
\* the text to the frames of that session and of no other, with the
\* Transcriber still running; no other step delivers a speech frame; the
\* callback's last step leaves the Transcriber stopped; and the start step of
\* a wake callback with true leaves it running.
C5SpeechDelivery ==
    [][/\ tpc = "send" /\ tpc' # "send"
          /\ active_websocket # 0 /\ sock[active_websocket] = "open"
          => /\ speech' = [speech EXCEPT ![active_websocket] = Append(@, SpeechFrame(text))]
             /\ srListening /\ srListening'
             /\ tpc' = "stop"
       /\ ~(tpc = "send" /\ tpc' # "send") => speech' = speech
       /\ tpc = "stop" /\ tpc' = "idle" => ~srListening'
       /\ wpc = "check" /\ wpc' # "check" /\ detected /\ speech_recognizer => wpc' = "start"
       /\ wpc = "start" /\ wpc' = "idle" => srListening'
      ]_vars

\* C5: the frame went to the session that is active, which replaced an
\* earlier one that is still open; the callback has stopped the Transcriber
\* and a wake callback has started it again
C5Witness ==
    /\ active_websocket = 2
    /\ sock[1] = "open" /\ spc[1] = "recv"
    /\ speech[1] = <<>>
    /\ speech[2] = <<SpeechFrame("turn on lights")>>
    /\ tpc = "idle" /\ nspeech = 1
    /\ srListening

\* cur[s] is not valid JSON
IsBadJson(s) == cur[s] # "" /\ JsonLoads(cur[s]).exc # NoExc

\* C6: a frame that is not valid JSON is answered with exactly the frame
\* {"type":"error","message":"Invalid JSON format"} and the handler stays in
\* its loop while the socket is open; the valid command frame that follows
\* it is handed to the agent and answered as any other.
C6BadJson ==
    \A s \in Sessions :
        /\ IsBadJson(s) =>
               /\ ~invoked[s]
               /\ sock[s] = "open" => spc[s] \in {"handler", "recv"}
               /\ spc[s] = "recv" =>
                      /\ replies[s] = 1
                      /\ lastSent[s] = PyDict([type |-> PyStr("error"),
                                               message |-> PyStr("Invalid JSON format")])
        /\ prevBad[s] /\ IsCommandFrame(s) =>
               /\ invoked[s]
               /\ spc[s] = "recv" /\ exc[s] = NoExc =>
                      /\ replies[s] = 1
                      /\ LastType(s) = "response"

\* C6: after a frame that was not valid JSON, a command frame got its
\* response
C6Witness ==
    \E s \in Sessions :
        /\ prevBad[s] /\ IsCommandFrame(s)
        /\ spc[s] = "recv" /\ replies[s] = 1
        /\ lastSent[s] = PyDict([type |-> PyStr("response"), data |-> PyStr("42"),
                                 metadata |-> PyDict(EmptyDict)])

\* cur[s] is valid JSON without a non-empty command
IsInvalidFrame(s) ==
    /\ cur[s] # ""
    /\ JsonLoads(cur[s]).exc = NoExc
    /\ \/ ~IsDict(JsonLoads(cur[s]).val)
       \/ ~Truthy(Get(JsonLoads(cur[s]).val, "command", PyNone))

\* C7: a frame that is valid JSON with an empty command, without a command,
\* or that is no object, is not handed to the agent; it is answered with one
\* error frame whose message is not empty and is not the message for invalid
\* JSON; and the handler stays in its loop while the socket is open.
C7InvalidFrame ==
    \A s \in Sessions :
        IsInvalidFrame(s) =>
            /\ ~invoked[s]
            /\ spc[s] \notin {"agent", "send"}
            /\ sock[s] = "open" => spc[s] \in {"handler", "recv"}
            /\ spc[s] = "recv" =>
                   /\ replies[s] = 1
                   /\ LastType(s) = "error"
                   /\ lastSent[s].v["message"].v \notin {"", "Invalid JSON format"}

\* C7: a frame without a command was answered with the validation message
C7Witness ==
    \E s \in Sessions :
        /\ cur[s] = "{}" /\ spc[s] = "recv" /\ sock[s] = "open"
        /\ lastSent[s] = PyDict([type |-> PyStr("error"),
                                 message |-> PyStr("Command is required")])

\* C8: an Exception raised for a command frame by the agent or by the
\* normalisation is answered with an error frame that carries its text, and
\* the handler stays in its loop while the socket is open.
C8ErrorCarriesText ==
    \A s \in Sessions :
        invoked[s] /\ IsException(exc[s]) /\ exc[s] # Disconnected =>
            /\ sock[s] = "open" => spc[s] \in {"handler", "recv"}
            /\ spc[s] = "recv" =>
                   lastSent[s] = PyDict([type |-> PyStr("error"),
                                         message |-> PyStr(exc[s].text)])

\* BuildFrame was applied to raw
Normalised == built.exc # NoExc \/ built.frame # PyNone

\* C9, the side-payload as the claim takes it: top-level video_urls, else
\* result.video_urls when result is a mapping, else none
C9SidePayload(r) ==
    IF IsDict(r) /\ "video_urls" \in DOMAIN r.v
    THEN r.v["video_urls"]
    ELSE IF IsDict(r) /\ "result" \in DOMAIN r.v /\ IsDict(r.v["result"])
            /\ "video_urls" \in DOMAIN r.v["result"].v
         THEN r.v["result"].v["video_urls"]
         ELSE PyNone

\* C9, result.query as the claim takes it: the empty string when absent
C9Query(r) ==
    IF "result" \in DOMAIN r.v /\ IsDict(r.v["result"]) /\ "query" \in DOMAIN r.v["result"].v
    THEN r.v["result"].v["query"]
    ELSE PyStr("")

\* C9: whenever the agent result carries a side-payload with at least one
\* item, at top level or in result, whatever the shape of result, the frame
\* built is a type "response" frame with video_urls the side-payload,
\* metadata.content_type "youtube_videos", metadata.query result.query (empty
\* when absent) and metadata.count the length of the side-payload.
C9SidePayloadFramed ==
    Normalised /\ C9SidePayload(raw) # PyNone /\ Truthy(C9SidePayload(raw)) =>
        /\ built.exc = NoExc
        /\ built.frame.v["type"] = PyStr("response")
        /\ "video_urls" \in DOMAIN built.frame.v
        /\ built.frame.v["video_urls"] = C9SidePayload(raw)
        /\ built.frame.v["metadata"].v["content_type"] = PyStr("youtube_videos")
        /\ built.frame.v["metadata"].v["query"] = C9Query(raw)
        /\ built.frame.v["metadata"].v["count"] = PyInt(Len(C9SidePayload(raw).v))

\* C10, the data text as the claim orders it
C10Data(r) ==
    IF IsDict(r) /\ "result" \in DOMAIN r.v
    THEN LET result == r.v["result"]
         IN  IF IsDict(result)
             THEN IF "intent" \in DOMAIN r.v /\ r.v["intent"] = PyStr("youtube_search")
                  THEN IF "message" \in DOMAIN result.v
                       THEN result.v["message"]
                       ELSE PyStr("")
                  ELSE IF "message" \in DOMAIN result.v
                       THEN result.v["message"]
                       ELSE IF "result" \in DOMAIN result.v
                            THEN result.v["result"]
                            ELSE PyStr(Str(result))
             ELSE PyStr(Str(result))
    ELSE PyStr(Str(r))

\* C10: the data of the response frame built for an agent result is the text
\* the stated priority gives; in particular the string form of result when
\* result is no mapping, the intent being youtube_search or not.
C10DataPriority ==
    Normalised /\ built.exc = NoExc => built.frame.v["data"] = C10Data(raw)

\* the frame the handler sends once the agent returned raw: the frame built,
\* or the error frame for the exception that building it raised
C11Sent == IF built.exc = NoExc THEN built.frame ELSE ErrorFrame(built.exc)

\* C11: the frame sent for an agent result carries a type; a response frame
\* carries a metadata map; content_type, query, count and the frame's
\* video_urls are present only if the agent result has a side-payload; and
\* metadata.intent is present, with the value of the result's intent, exactly
\* when the agent result is a mapping with an intent, with or without a
\* side-payload.
C11FrameShape ==
    Normalised =>
        /\ "type" \in DOMAIN C11Sent.v
        /\ C11Sent.v["type"] \in {PyStr("response"), PyStr("error")}
        /\ built.exc = NoExc =>
               /\ built.frame.v["type"] = PyStr("response")
               /\ "metadata" \in DOMAIN built.frame.v
               /\ IsDict(built.frame.v["metadata"])
               /\ \/ "video_urls" \in DOMAIN built.frame.v
                  \/ {"content_type", "query", "count"}
                         \cap DOMAIN built.frame.v["metadata"].v # {}
                  => C9SidePayload(raw) # PyNone
               /\ "intent" \in DOMAIN built.frame.v["metadata"].v
                      <=> (IsDict(raw) /\ "intent" \in DOMAIN raw.v)
               /\ "intent" \in DOMAIN built.frame.v["metadata"].v
                      => built.frame.v["metadata"].v["intent"] = raw.v["intent"]

\* C11: a result with an intent and no side-payload was framed with the
\* intent as the only metadata
C11Witness ==
    /\ raw = PyDict([intent |-> PyStr("chat"), result |-> PyStr("42")])
    /\ built.exc = NoExc
    /\ built.frame = PyDict([type |-> PyStr("response"), data |-> PyStr("42"),
                             metadata |-> PyDict([intent |-> PyStr("chat")])])

\* this run of lifespan used up the retry budget: three attempts, all failed
C12Exhausted ==
    /\ Len(ConnectResults) = 3
    /\ \A i \in 1..3 : ConnectResults[i] = "false"

\* C12: in a run that used up the retry budget, the try part is left by an
\* exception only when constructing or binding the agent handle raised; and
\* when the run is serving, the agent handle was constructed and bound, the
\* client exists and is not connected, and the four handles are published.
C12DegradedStartup ==
    C12Exhausted =>
        /\ startupExc =>
               \E i \in 1..Len(log) :
                   log[i].res = "raise" /\ log[i].step \in {"agent_new", "set_client"}
        /\ lpc = "serving" =>
               /\ Attempted("agent_new") /\ Attempted("set_client")
               /\ mcp_client /\ ~clientConnected
               /\ mcp_connector /\ mcp_thread
               /\ Handles \subseteq app_state

\* C12: the server is serving after three failed connect attempts
C12Witness ==
    /\ C12Exhausted
    /\ lpc = "serving"
    /\ ~startupExc
    /\ mcp_client /\ ~clientConnected
    /\ app_state = Handles

\* C13, the place of a step of lifespan in the stated order: the tool
\* subsystem, the client connector with its retries, the audio bridge, the
\* agent handle, the publication; the teardown steps come after all of them
C13Rank(step) ==
    CASE step \in {"connector", "thread"} -> 1
      [] step \in {"client", "connect", "sleep"} -> 2
      [] step \in {"wake_new", "sr_new", "wake_start"} -> 3
      [] step \in {"agent_new", "set_client"} -> 4
      [] step = "publish" -> 5
      [] OTHER -> 6

\* C13: the steps of a run of lifespan are taken in the stated order: no
\* step is taken after a step that the order places later.
C13StartupOrder ==
    \A i, j \in 1..Len(log) :
        i < j => C13Rank(log[i].step) <= C13Rank(log[j].step)

\* C14: every step of the handler of /health leaves the handles, the
\* active-session reference and the audio components as they are and does
\* not raise; the status it computes for the subsystem is "running" exactly
\* when the thread is alive at that step, for the client "connected"
\* exactly when a client exists with its connected flag set, and for each
\* audio component "running" exactly when it exists and is listening; and
\* the handler returns with all four statuses computed.
C14HealthPureRead ==
    [][hpc' # hpc =>
          /\ UNCHANGED <<globalVars, collabVars, active_websocket>>
          /\ ~health'.raised
          /\ hpc = "thread" =>
                 health'.mcp_connector =
                     IF mcp_thread /\ threadAlive THEN "running" ELSE "stopped"
          /\ hpc = "client" =>
                 health'.mcp_client =
                     IF mcp_client /\ clientConnected THEN "connected" ELSE "disconnected"
          /\ hpc = "wake" =>
                 health'.wake_word_detector =
                     IF wake_word_detector /\ wakeListening THEN "running" ELSE "stopped"
          /\ hpc = "sr" =>
                 health'.speech_recognizer =
                     IF speech_recognizer /\ srListening THEN "running" ELSE "stopped"
          /\ hpc # "idle" /\ hpc' = "idle" =>
                 /\ health'.mcp_connector \in {"running", "stopped"}
                 /\ health'.mcp_client \in {"connected", "disconnected"}
                 /\ health'.wake_word_detector \in {"running", "stopped"}
                 /\ health'.speech_recognizer \in {"running", "stopped"}
      ]_vars

\* C14: a request returned the snapshot of a degraded server: the thread of
\* the subsystem has ended, the client never connected, and a wake callback
\* has started the recognizer
C14Witness ==
    /\ hpc = "idle"
    /\ health = [mcp_connector |-> "stopped", mcp_client |-> "disconnected",
                 wake_word_detector |-> "running", speech_recognizer |-> "running",
                 raised |-> FALSE]
    /\ mcp_thread /\ ~threadAlive /\ mcp_client /\ ~clientConnected /\ srListening

\* C15: the disconnect step of shutdown, whether the client is absent or
\* disconnect() succeeds, times out or raises, does not raise and is
\* followed by the subsystem-shutdown step, which is followed by the agent
\* cleanup step; the client handle is cleared by the step of a disconnect
\* that succeeded and by no other step of shutdown.
C15DisconnectBounded ==
    [][/\ lpc = "disconnect" /\ lpc' # lpc =>
              /\ lpc' = "connector_stop"
              /\ shutdownExc' = shutdownExc
              /\ log'[Len(log')].step = "disconnect"
              /\ log'[Len(log')].res = "skip" <=> ~mcp_client
              /\ mcp_client' <=> (mcp_client /\ log'[Len(log')].res # "ok")
       /\ lpc = "connector_stop" /\ lpc' # lpc =>
              /\ lpc' = "cleanup"
              /\ shutdownExc' = shutdownExc
       /\ lpc \in {"wake_stop", "sr_stop", "connector_stop", "cleanup"} =>
              mcp_client' = mcp_client
      ]_vars

\* C15: shutdown has ended after a disconnect that timed out: the later
\* steps were gone through and the client handle is still there
C15Witness ==
    /\ lpc = "done"
    /\ \E i \in 1..Len(log) : log[i] = [step |-> "disconnect", res |-> "timeout"]
    /\ Reached("connector_stop") /\ Reached("cleanup")
    /\ mcp_client

\* C16: when the handler of a session has terminated, the active-session
\* reference does not designate that session, close() was called on its
\* socket only while the socket was not yet closed, and the handler has not
\* raised, other than by passing on a cancellation that ended its loop.
C16CloseOnlyIfOpen ==
    \A s \in Sessions :
        spc[s] = "closed" =>
            /\ active_websocket # s
            /\ closedWhen[s] \in {"none", "open"}
            /\ hraised[s] => exc[s].cls = "CancelledError"

\* C17: the step that registers a newly accepted session leaves the
\* active-session reference designating that session, whatever it
\* designated before, and changes neither the socket, nor the handler, nor
\* the delivered speech frames of any other session.
C17SingleSlot ==
    [][\A s \in Sessions :
           spc[s] = "accepted" /\ spc'[s] = "recv" =>
               /\ active_websocket' = s
               /\ \A t \in Sessions \ {s} :
                      sock'[t] = sock[t] /\ spc'[t] = spc[t] /\ speech'[t] = speech[t]
      ]_vars

\* C17: session 2 was accepted while session 1 was active; the reference
\* designates session 2 and session 1 is still open in its loop
C17Witness ==
    /\ active_websocket = 2
    /\ spc[2] = "recv" /\ sock[2] = "open"
    /\ spc[1] = "recv" /\ sock[1] = "open"
    /\ tpc = "idle" /\ nspeech = 0

\* C18: no step takes the active-session reference away from a session
\* that is open in its loop before and after the step, unless the step
\* registers a newly accepted session; in particular the termination of
\* another session does not.
C18LatestKept ==
    [][\A s \in Sessions :
           /\ active_websocket = s
           /\ sock[s] = "open" /\ spc[s] = "recv"
           /\ sock'[s] = "open" /\ spc'[s] = "recv"
           /\ \A t \in Sessions : ~(spc[t] = "accepted" /\ spc'[t] = "recv")
           => active_websocket' = s
      ]_vars

\* C19: the step that ends an invocation of on_speech_recognized leaves the
\* Transcriber stopped, whether a frame was delivered, no session was
\* active, or the send failed; and an invocation that finds no session
\* active delivers nothing.
C19CallbackStops ==
    [][/\ tpc # "idle" /\ tpc' = "idle" => ~srListening'
       /\ tpc = "check" /\ active_websocket = 0 => tpc' # "send" /\ speech' = speech
      ]_vars

\* C20: once shutdown has gone through all its steps without raising,
\* neither audio component is listening, whatever the callbacks on the
\* audio threads do before, during and after it.
C20StoppedAfterShutdown ==
    lpc = "done" /\ ~shutdownExc => ~wakeListening /\ ~srListening

=============================================================================
